---- MODULE Spec2Model ----
(***************************************************************************)
(* Verbex Python SDK: the wire normalizer, the response envelope and the   *)
(* request/response round trip of VerbexClient (sdk/python/verbex_sdk.py). *)
(***************************************************************************)
EXTENDS Integers, Sequences, FiniteSets, TLC

VARIABLES
    tree,       \* the payload handed to the wire normalizer
    results,    \* outputs of the successive normalizer passes over tree
    payload,    \* the mapping handed to ApiResponse.from_dict
    envelope,   \* the ApiResponse built from payload
    client,     \* the VerbexClient: its endpoint, access key and session
    op,         \* the client operation of the last call
    args,       \* the arguments that operation was called with
    request,    \* the HTTP request that call issued
    sent,       \* how many HTTP requests that call has handed to the transport
    reply,      \* what the transport did with that request
    outcome,    \* how the call ended: an envelope returned or an exception raised
    pc,         \* where the test harness is: not started, running its scenarios, exited
    position,   \* how many _run_test calls of TestHarness.run have been made
    _client,    \* the harness's client: not constructed, open, closed
    _results,   \* the TestResults recorded so far
    _passed,    \* the harness's counter of passed scenarios
    _failed,    \* the harness's counter of failed scenarios
    fatal,      \* the except clause of TestHarness.run has been entered
    exit_status, \* what main returned to sys.exit, once it has
    ended,      \* how the body of the last scenario ended
    _test_documents, \* the document ids the harness tracks
    invalid_client,  \* the client of "Validate invalid token": not constructed, open, closed
    calls,      \* the client operations the scenarios called, in order, with how each ended
    server,     \* what the server stores: its indices, the documents of the test index
    faults      \* how many requests the server has answered against its contract

vars == <<tree, results, payload, envelope, client, op, args, request, sent, reply, outcome,
          pc, position, _client, _results, _passed, _failed, fatal, exit_status,
          ended, _test_documents, invalid_client, calls, server, faults>>

normVars == <<tree, results>>
envVars == <<payload, envelope>>
callVars == <<op, args, request, sent, reply, outcome>>
scenarioVars == <<_test_documents, invalid_client, calls, server, faults>>
harnessVars == <<pc, position, _client, _results, _passed, _failed, fatal, exit_status,
                 ended, scenarioVars>>

(***************************************************************************)
(* Bounds of the model.                                                    *)
(***************************************************************************)
\* nodes (scalars, sequences, mappings) of a tree given to the normalizer
MaxNodes == 4
\* fields of a payload mapping given to from_dict
MaxFields == 2
\* normalizer passes applied one after the other to one tree
MaxPasses == 2
\* scenarios of one harness run that fail
MaxFailures == 2
\* requests of a harness run that the server answers against its contract
MaxFaults == 1

(***************************************************************************)
(* JSON values as Python sees them after json.loads: a tag t and a value   *)
(* v.  A list is a sequence of values; a dict is the sequence of its       *)
(* <<key, value>> items in insertion order, keys pairwise distinct.        *)
(* "repr" is the string str(x) of a container x.                           *)
(***************************************************************************)
None == [t |-> "null", v |-> 0]
Bool(b) == [t |-> "bool", v |-> b]
Num(n) == [t |-> "int", v |-> n]
Str(s) == [t |-> "str", v |-> s]
Repr(x) == [t |-> "repr", v |-> x]
List(s) == [t |-> "list", v |-> s]
Dict(items) == [t |-> "dict", v |-> items]

\* A key is <<first character, rest>>; the empty key is <<"", "">>.
Key(first, rest) == <<first, rest>>
EmptyKey == <<"", "">>

UpperChars == <<"A", "B", "C", "D", "E", "F", "G", "H", "I", "J", "K", "L", "M",
                "N", "O", "P", "Q", "R", "S", "T", "U", "V", "W", "X", "Y", "Z">>
LowerChars == <<"a", "b", "c", "d", "e", "f", "g", "h", "i", "j", "k", "l", "m",
                "n", "o", "p", "q", "r", "s", "t", "u", "v", "w", "x", "y", "z">>

\* str.lower() of one character
lower(c) ==
    IF \E i \in 1..Len(UpperChars) : UpperChars[i] = c
    THEN LowerChars[CHOOSE i \in 1..Len(UpperChars) : UpperChars[i] = c]
    ELSE c

\* key in d
HasKey(items, key) == \E i \in 1..Len(items) : items[i][1] = key

\* d[key] for a key that is present
Lookup(items, key) == items[CHOOSE i \in 1..Len(items) : items[i][1] = key][2]

\* d[key] = value: an existing key keeps its position, a new key goes last
SetItem(items, key, value) ==
    IF HasKey(items, key)
    THEN [i \in 1..Len(items) |-> IF items[i][1] = key THEN <<key, value>> ELSE items[i]]
    ELSE Append(items, <<key, value>>)

\* str(x)
PyStr(x) ==
    CASE x.t = "null" -> Str("None")
      [] x.t = "bool" -> Str(IF x.v THEN "True" ELSE "False")
      [] x.t = "int" -> Str(ToString(x.v))
      [] x.t = "str" -> x
      [] x.t = "repr" -> x
      [] OTHER -> Repr(x)

\* bool(x): Python truthiness
Truthy(x) ==
    CASE x.t = "null" -> FALSE
      [] x.t = "bool" -> x.v
      [] x.t = "int" -> x.v # 0
      [] x.t = "str" -> x.v # ""
      [] x.t = "repr" -> TRUE
      [] OTHER -> Len(x.v) > 0

\* a or b
Or(a, b) == IF Truthy(a) THEN a ELSE b

RECURSIVE PyEq(_, _)
\* a == b: lists compare item by item, dicts by key whatever the order,
\* True and False compare equal to 1 and 0
PyEq(a, b) ==
    CASE a.t \in {"bool", "int"} /\ b.t \in {"bool", "int"} ->
            LET num(x) == IF x.t = "int" THEN x.v ELSE IF x.v THEN 1 ELSE 0
            IN num(a) = num(b)
      [] a.t # b.t -> FALSE
      [] a.t = "list" ->
            /\ Len(a.v) = Len(b.v)
            /\ \A i \in 1..Len(a.v) : PyEq(a.v[i], b.v[i])
      [] a.t = "dict" ->
            /\ Len(a.v) = Len(b.v)
            /\ \A i \in 1..Len(a.v) :
                  /\ HasKey(b.v, a.v[i][1])
                  /\ PyEq(a.v[i][2], Lookup(b.v, a.v[i][1]))
      [] OTHER -> a.v = b.v

(***************************************************************************)
(* The wire normalizer.                                                    *)
(***************************************************************************)
DocumentIdKey == Key("d", "ocumentId")
IdKey == Key("i", "d")

\* mutant: the slice keeps the first character, key[0].lower() + key[0:]
CamelKeyKeepsFirst(key) ==
    IF key # EmptyKey THEN <<lower(key[1]), key[1] \o key[2]>> ELSE key

\* camel_key = key[0].lower() + key[1:] if key else key
CamelKey(key) == IF key # EmptyKey THEN <<lower(key[1]), key[2]>> ELSE key

\* mutant: the alias is written whether or not 'id' is already there
AddAliasesOverwrites(result) ==
    IF HasKey(result, DocumentIdKey)
    THEN SetItem(result, IdKey, PyStr(Lookup(result, DocumentIdKey)))
    ELSE result

\* the convenience alias added to a rewritten mapping
AddAliases(result) ==
    IF HasKey(result, DocumentIdKey) /\ ~HasKey(result, IdKey)
    THEN SetItem(result, IdKey, PyStr(Lookup(result, DocumentIdKey)))
    ELSE result

RECURSIVE _to_camel_case_keys(_)
RECURSIVE CamelItems(_, _)

\* the loop over obj.items(), result being the mapping built so far
CamelItems(items, result) ==
    IF items = <<>>
    THEN result
    ELSE CamelItems(Tail(items),
                    SetItem(result, CamelKey(Head(items)[1]),
                            _to_camel_case_keys(Head(items)[2])))

\* mutant: a list is returned as it is, its elements are not visited
KeepsListsAsTheyAre(obj) ==
    CASE obj.t = "null" -> None
      [] obj.t = "list" -> obj
      [] obj.t = "dict" -> Dict(AddAliases(CamelItems(obj.v, <<>>)))
      [] OTHER -> obj

_to_camel_case_keys(obj) ==
    CASE obj.t = "null" -> None
      [] obj.t = "list" -> List([i \in 1..Len(obj.v) |-> _to_camel_case_keys(obj.v[i])])
      [] obj.t = "dict" -> Dict(AddAliases(CamelItems(obj.v, <<>>)))
      [] OTHER -> obj

(***************************************************************************)
(* The payloads the normalizer is run on: every tree of at most MaxNodes   *)
(* nodes over TreeScalars and TreeKeys.                                    *)
(***************************************************************************)
TreeScalars == {None, Num(7)}
TreeKeys == {Key("I", "d"), Key("i", "d"), Key("D", "ocumentId"), Key("d", "ocumentId")}

\* sequences of n pairwise distinct keys
KeySeqs(n) == {ks \in [1..n -> TreeKeys] : \A i, j \in 1..n : i # j => ks[i] # ks[j]}

RECURSIVE TreesOf(_)
RECURSIVE ForestsOf(_)
RECURSIVE ForestsFrom(_, _)
RECURSIVE TreesFrom(_, _)

\* the trees of exactly n nodes of one kind: the scalars (kind -2), the
\* lists (kind -1), the dicts of m items (kind m)
TreesOfKind(n, kind) ==
    CASE kind = -2 -> IF n = 1 THEN TreeScalars ELSE {}
      [] kind = -1 -> {List(f) : f \in ForestsOf(n - 1)}
      [] OTHER -> {Dict([i \in 1..kind |-> <<ks[i], f[i]>>]) :
                      ks \in KeySeqs(kind), f \in {g \in ForestsOf(n - 1) : Len(g) = kind}}
Kinds == -2..Cardinality(TreeKeys)

\* the trees of exactly n nodes of the kinds up to kind
TreesFrom(n, kind) ==
    IF kind < -2 THEN {} ELSE TreesOfKind(n, kind) \cup TreesFrom(n, kind - 1)

\* the trees of exactly n nodes
TreesOf(n) == TreesFrom(n, Cardinality(TreeKeys))

\* the sequences of n nodes in all whose first tree has at most k nodes
ForestsFrom(n, k) ==
    IF k = 0
    THEN {}
    ELSE {<<x>> \o g : x \in TreesOf(k), g \in ForestsOf(n - k)} \cup ForestsFrom(n, k - 1)

\* the sequences of trees of exactly n nodes in all
ForestsOf(n) == IF n = 0 THEN {<<>>} ELSE ForestsFrom(n, n)

(***************************************************************************)
(* The response envelope.                                                  *)
(***************************************************************************)
\* d.get(key, default)
Get(d, key, default) == IF HasKey(d.v, key) THEN Lookup(d.v, key) ELSE default

\* the capitalized and the lowercase name of each envelope field
Cap == [guid |-> Key("G", "uid"), success |-> Key("S", "uccess"),
        timestamp_utc |-> Key("T", "imestampUtc"), status_code |-> Key("S", "tatusCode"),
        error_message |-> Key("E", "rrorMessage"), data |-> Key("D", "ata"),
        total_count |-> Key("T", "otalCount"),
        processing_time_ms |-> Key("P", "rocessingTimeMs")]
Low == [guid |-> Key("g", "uid"), success |-> Key("s", "uccess"),
        timestamp_utc |-> Key("t", "imestampUtc"), status_code |-> Key("s", "tatusCode"),
        error_message |-> Key("e", "rrorMessage"), data |-> Key("d", "ata"),
        total_count |-> Key("t", "otalCount"),
        processing_time_ms |-> Key("p", "rocessingTimeMs")]
Fields == DOMAIN Cap

\* ApiResponse.from_dict(d), d a dict
from_dict(d) ==
    LET raw_data == Or(Get(d, Cap.data, None), Get(d, Low.data, None))
        converted_data == IF Truthy(raw_data) THEN _to_camel_case_keys(raw_data) ELSE None
    IN [guid |-> Or(Get(d, Cap.guid, None), Get(d, Low.guid, None)),
        success |-> Or(Get(d, Cap.success, None), Get(d, Low.success, Bool(FALSE))),
        timestamp_utc |-> Or(Get(d, Cap.timestamp_utc, None), Get(d, Low.timestamp_utc, None)),
        status_code |-> Or(Get(d, Cap.status_code, None), Get(d, Low.status_code, Num(0))),
        error_message |-> Or(Get(d, Cap.error_message, None), Get(d, Low.error_message, None)),
        data |-> converted_data,
        total_count |-> Or(Get(d, Cap.total_count, None), Get(d, Low.total_count, None)),
        processing_time_ms |-> Or(Get(d, Cap.processing_time_ms, None),
                                  Get(d, Low.processing_time_ms, None)),
        raw_response |-> d]

(***************************************************************************)
(* The payload mappings from_dict is run on: at most MaxFields of the      *)
(* sixteen field names, each with one of FieldValues.                      *)
(***************************************************************************)
FieldValues == {None, Bool(FALSE), Bool(TRUE), Num(0), Num(404), Str(""), Str("x"),
                List(<<>>), Dict(<<>>), Dict(<< <<Key("D", "ocumentId"), Num(7)>> >>)}

FieldOrder == <<Cap.guid, Low.guid, Cap.success, Low.success,
                Cap.timestamp_utc, Low.timestamp_utc, Cap.status_code, Low.status_code,
                Cap.error_message, Low.error_message, Cap.data, Low.data,
                Cap.total_count, Low.total_count,
                Cap.processing_time_ms, Low.processing_time_ms>>

\* the choices of at most n of the names in FieldOrder, as positions
KeyChoices(n) == {c \in SUBSET (1..Len(FieldOrder)) : Cardinality(c) <= n}

\* the dict that gives the chosen names, in FieldOrder, the values of vals
PayloadOver(c, vals) ==
    LET picked == SelectSeq([i \in 1..Len(FieldOrder) |-> i], LAMBDA i : i \in c)
    IN Dict([j \in 1..Len(picked) |-> <<FieldOrder[picked[j]], vals[picked[j]]>>])

(***************************************************************************)
(* Values kept in the variables a specification does not use.              *)
(***************************************************************************)
NoTree == None
NoPayload == Dict(<<>>)
NoEnvelope == [built |-> FALSE]
NoCall == [kind |-> "none"]
NoArgs == <<>>

IdleNorm == tree = NoTree /\ results = <<>>
IdleEnv == payload = NoPayload /\ envelope = NoEnvelope
IdleCall ==
    /\ client = NoCall /\ op = "none" /\ args = NoArgs /\ request = NoCall /\ sent = 0
    /\ reply = NoCall /\ outcome = NoCall
NoExit == -1
\* a server that stores nothing yet
EmptyServer == [up |-> TRUE, indices |-> {}, documents |-> {}, generated |-> 0]
\* no scenario has run
IdleScenarios ==
    /\ _test_documents = <<>> /\ invalid_client = "none" /\ calls = <<>>
    /\ server = EmptyServer /\ faults = 0
IdleHarness ==
    /\ pc = "idle" /\ position = 0 /\ _client = "none" /\ _results = <<>>
    /\ _passed = 0 /\ _failed = 0 /\ fatal = FALSE /\ exit_status = NoExit
    /\ ended = NoCall /\ IdleScenarios

(***************************************************************************)
(* SpecNorm: the normalizer applied repeatedly to one tree.                *)
(***************************************************************************)
InitNorm ==
    /\ \E n \in 1..MaxNodes, kind \in Kinds : tree \in TreesOfKind(n, kind)
    /\ results = <<>> /\ IdleEnv /\ IdleCall /\ IdleHarness

\* one more call of _to_camel_case_keys, on the tree or on the last output
Normalize ==
    /\ Len(results) < MaxPasses
    /\ results' = Append(results,
                         _to_camel_case_keys(IF results = <<>> THEN tree
                                                                ELSE results[Len(results)]))
    /\ UNCHANGED <<tree, envVars, client, callVars, harnessVars>>

NextNorm == Normalize

SpecNorm == InitNorm /\ [][NextNorm]_vars

(***************************************************************************)
(* SpecEnv: one envelope built from one payload mapping.                   *)
(***************************************************************************)
InitEnv ==
    /\ \E c \in KeyChoices(MaxFields) : \E vals \in [c -> FieldValues] :
           payload = PayloadOver(c, vals)
    /\ envelope = NoEnvelope /\ IdleNorm /\ IdleCall /\ IdleHarness

\* ApiResponse.from_dict(payload)
BuildEnvelope ==
    /\ envelope = NoEnvelope
    /\ envelope' = from_dict(payload)
    /\ UNCHANGED <<payload, normVars, client, callVars, harnessVars>>

NextEnv == BuildEnvelope

SpecEnv == InitEnv /\ [][NextEnv]_vars

(***************************************************************************)
(* The API client: one blocking round trip per operation.                  *)
(***************************************************************************)
\* how a call ends
Returned(api_response) == [kind |-> "return", response |-> api_response]
Raised(type, message, status_code, response) ==
    [kind |-> "raise", type |-> type, message |-> message,
     status_code |-> status_code, response |-> response]

\* VerbexError(message, status_code=0, response=None)
VerbexError(message, status_code, response) ==
    Raised("VerbexError", message, status_code, response)

\* the exceptions of the transport library, all of them requests.RequestException
RequestExceptions == {"ConnectionError", "Timeout", "ChunkedEncodingError"}

\* response.ok: the status is no client or server error
Ok(response) == ~(400 <= response.status_code /\ response.status_code < 600)

\* mutant: the fallback payload reports success whatever the status
FallbackPayloadAlwaysOk(response) ==
    Dict(<< <<Low.success, Bool(TRUE)>>,
            <<Low.status_code, Num(response.status_code)>>,
            <<Low.data, IF response.text # "" THEN Str(response.text) ELSE None>> >>)

\* mutant: the fallback payload names the status 'status', not 'statusCode'
FallbackPayloadWrongStatusKey(response) ==
    Dict(<< <<Low.success, Bool(~(400 <= response.status_code /\ response.status_code < 600))>>,
            <<Key("s", "tatus"), Num(response.status_code)>>,
            <<Low.data, IF response.text # "" THEN Str(response.text) ELSE None>> >>)

\* the payload synthesized when response.json() raises json.JSONDecodeError
FallbackPayload(response) ==
    Dict(<< <<Low.success, Bool(Ok(response))>>,
            <<Low.status_code, Num(response.status_code)>>,
            <<Low.data, IF response.text # "" THEN Str(response.text) ELSE None>> >>)

\* response_data: response.json(), or the fallback payload
ResponseData(response) ==
    IF response.decodes THEN response.json ELSE FallbackPayload(response)

\* mutant: only a server error (status_code >= 500) is raised
CheckResponseServerErrorsOnly(api_response) ==
    IF ~Truthy(api_response.success)
    THEN IF api_response.status_code.t \notin {"int", "bool"}
         THEN Raised("TypeError", Str("'>=' not supported"), Num(0), None)
         ELSE IF api_response.status_code.t = "int" /\ api_response.status_code.v >= 500
              THEN Raised("VerbexError", Str("Request failed"),
                          api_response.status_code, api_response)
              ELSE Returned(api_response)
    ELSE Returned(api_response)

\* raise VerbexError for a failed envelope, else return it; comparing a status
\* code that is no number with 400 raises TypeError
CheckResponse(api_response) ==
    IF ~Truthy(api_response.success)
    THEN IF api_response.status_code.t \notin {"int", "bool"}
         THEN Raised("TypeError", Str("'>=' not supported"), Num(0), None)
         ELSE IF api_response.status_code.t = "int" /\ api_response.status_code.v >= 400
              THEN VerbexError(Or(api_response.error_message,
                                  Str("Request failed with status "
                                      \o ToString(api_response.status_code.v))),
                               api_response.status_code, api_response)
              ELSE Returned(api_response)
    ELSE Returned(api_response)

\* the body of the try block once the transport has answered
HandleResponse(response) ==
    LET response_data == ResponseData(response)
    IN IF response_data.t # "dict"
       THEN Raised("AttributeError", Str("object has no attribute 'get'"), Num(0), None)
       ELSE CheckResponse(from_dict(response_data))

\* mutant: except requests.ConnectionError as e
HandleExceptionConnectionOnly(e) ==
    IF e.type = "ConnectionError"
    THEN Raised("VerbexError", Str("Request failed: " \o e.text), Num(0), None)
    ELSE Raised(e.type, Str(e.text), Num(0), None)

\* except requests.RequestException as e
HandleException(e) ==
    IF e.type \in RequestExceptions
    THEN VerbexError(Str("Request failed: " \o e.text), Num(0), None)
    ELSE Raised(e.type, Str(e.text), Num(0), None)

(***************************************************************************)
(* What the transport may do with a request: raise, or answer with a       *)
(* status and a body that is a JSON document or is not.                    *)
(***************************************************************************)
HttpStatuses == {200, 404, 500}

\* the fields of a JSON body that say how the request went: either casing,
\* present or not, with a value of the expected type or not
SuccessItems ==
    {<<>>, << <<Cap.success, Bool(FALSE)>>, <<Low.success, Bool(TRUE)>> >>} \cup
    {<< <<k, x>> >> : k \in {Cap.success, Low.success},
                      x \in {None, Bool(FALSE), Bool(TRUE)}}
StatusItems ==
    {<<>>} \cup
    {<< <<k, x>> >> : k \in {Cap.status_code, Low.status_code},
                      x \in {None, Num(200), Num(404), Str("404")}}
MessageItems == {<<>>, << <<Cap.error_message, Str("Index not found")>> >>}
DataItems == {<<>>, << <<Cap.data, Dict(<< <<Key("D", "ocumentId"), Num(7)>> >>)>> >>}

JsonBodies ==
    {Dict(a \o b \o c \o d) :
        a \in SuccessItems, b \in StatusItems, c \in MessageItems, d \in DataItems} \cup
    {List(<<>>), List(<<Dict(<<>>)>>), Str("x"), Num(7), None}
TextBodies == {"", "Not Found"}

Responses ==
    {[kind |-> "response", status_code |-> s, decodes |-> TRUE, json |-> b, text |-> "json"]
        : s \in HttpStatuses, b \in JsonBodies} \cup
    {[kind |-> "response", status_code |-> s, decodes |-> FALSE, json |-> None, text |-> x]
        : s \in HttpStatuses, x \in TextBodies}
Failures ==
    {[kind |-> "exception", type |-> e, text |-> x]
        : e \in RequestExceptions, x \in {"", "Connection refused"}}
TransportOutcomes == Responses \cup Failures

\* the arguments the operations are called with
AccessKeys == {"verbexadmin"}
IndexIds == {"idx1"}
DocumentIds == {"doc1"}

\* the headers every request of the session carries
SessionHeaders == {<<"Content-Type", "application/json">>, <<"Accept", "application/json">>}

\* the headers of one request merged into those of the session: a name given
\* for the request replaces the session's
MergeHeaders(session_headers, headers) ==
    {h \in session_headers : \A g \in headers : g[1] # h[1]} \cup headers

\* mutant: the access key is sent without the Bearer scheme
AuthHeadersWithoutScheme(access_key) == {<<"Authorization", access_key>>}

\* self._get_auth_headers()
_get_auth_headers(access_key) == {<<"Authorization", "Bearer " \o access_key>>}

\* no call is in progress: the client is used by one caller, one call at a time
Pending == [kind |-> "pending"]

\* VerbexClient._make_request up to the blocking transport call: the request
\* goes out, or the method is refused
_make_request(operation, method, path, data, require_auth) ==
    /\ outcome # Pending
    /\ op' = operation
    /\ reply' = NoCall
    /\ IF method \in {"GET", "POST", "PUT", "DELETE"}
       THEN /\ request' = [kind |-> "request", method |-> method, path |-> path,
                           headers |-> MergeHeaders(client.session.headers,
                                           IF require_auth
                                           THEN _get_auth_headers(client.access_key)
                                           ELSE {}),
                           json |-> IF method \in {"POST", "PUT"} THEN data ELSE None]
            /\ sent' = 1
            /\ outcome' = Pending
       ELSE /\ request' = NoCall
            /\ sent' = 0
            /\ outcome' = VerbexError(Str("Unsupported HTTP method: " \o method), Num(0), None)
    /\ UNCHANGED <<client, normVars, envVars, harnessVars>>

\* mutant: a request the transport failed is issued once more
ReceiveReplyRetriesOnce ==
    /\ outcome = Pending
    /\ \E r \in TransportOutcomes :
          /\ reply' = r
          /\ IF r.kind = "exception" /\ sent < 2
             THEN sent' = sent + 1 /\ outcome' = Pending
             ELSE /\ sent' = sent
                  /\ outcome' = IF r.kind = "exception" THEN HandleException(r)
                                                       ELSE HandleResponse(r)
    /\ UNCHANGED <<client, op, args, request, normVars, envVars, harnessVars>>

\* VerbexClient._make_request from the transport's answer on: the call
\* returns an envelope or raises
ReceiveReply ==
    /\ outcome = Pending
    /\ \E r \in TransportOutcomes :
          /\ reply' = r
          /\ outcome' = IF r.kind = "exception" THEN HandleException(r) ELSE HandleResponse(r)
    /\ UNCHANGED <<client, op, args, request, sent, normVars, envVars, harnessVars>>

(***************************************************************************)
(* The operations of the client.                                           *)
(***************************************************************************)
Usernames == {"admin"}
Passwords == {"password"}
\* an optional string: left out, empty, given
NameArgs == {None, Str(""), Str("Test Index")}
DescriptionArgs == {None, Str("A test index")}
\* an optional collection: left out, empty, given
LabelArgs == {None, List(<<>>), List(<<Str("a")>>)}
TagArgs == {None, Dict(<<>>), Dict(<< <<Key("k", ""), Str("v")>> >>)}
Contents == {"The quick brown fox"}
Queries == {"fox"}

\* the items of a request body, an item being left out when its guard is false
Items(guarded) ==
    LET kept == SelectSeq(guarded, LAMBDA g : g[1])
    IN [i \in 1..Len(kept) |-> <<kept[i][2], kept[i][3]>>]

health_check ==
    /\ args' = NoArgs
    /\ _make_request("health_check", "GET", <<"v1.0", "health">>, None, FALSE)

root_health_check ==
    /\ args' = NoArgs
    /\ _make_request("root_health_check", "GET", <<>>, None, FALSE)

login ==
    \E username \in Usernames, password \in Passwords :
        /\ args' = [username |-> username, password |-> password]
        /\ _make_request("login", "POST", <<"v1.0", "auth", "login">>,
                         Dict(<< <<Key("U", "sername"), Str(username)>>,
                                 <<Key("P", "assword"), Str(password)>> >>), FALSE)

validate_token ==
    /\ args' = NoArgs
    /\ _make_request("validate_token", "GET", <<"v1.0", "auth", "validate">>, None, TRUE)

list_indices ==
    /\ args' = NoArgs
    /\ _make_request("list_indices", "GET", <<"v1.0", "indices">>, None, TRUE)

create_index ==
    \E id \in IndexIds, name \in NameArgs, description \in DescriptionArgs,
       labels \in LabelArgs, tags \in TagArgs :
        LET repository_filename == None
            data == Items(<<
                <<TRUE, Key("I", "d"), Str(id)>>,
                <<TRUE, Key("N", "ame"), Or(name, Str(id))>>,
                <<TRUE, Key("D", "escription"), Or(description, Str(""))>>,
                <<TRUE, Key("R", "epositoryFilename"),
                        Or(repository_filename, Str(id \o ".db"))>>,
                <<TRUE, Key("I", "nMemory"), Bool(FALSE)>>,
                <<TRUE, Key("S", "torageMode"), Str("MemoryOnly")>>,
                <<TRUE, Key("E", "nableLemmatizer"), Bool(FALSE)>>,
                <<TRUE, Key("E", "nableStopWordRemover"), Bool(FALSE)>>,
                <<TRUE, Key("M", "inTokenLength"), Num(0)>>,
                <<TRUE, Key("M", "axTokenLength"), Num(0)>>,
                <<Truthy(labels), Key("L", "abels"), labels>>,
                <<Truthy(tags), Key("T", "ags"), tags>> >>)
        IN /\ args' = [id |-> id, name |-> name, description |-> description,
                       labels |-> labels, tags |-> tags]
           /\ _make_request("create_index", "POST", <<"v1.0", "indices">>, Dict(data), TRUE)

get_index ==
    \E index_id \in IndexIds :
        /\ args' = [index_id |-> index_id]
        /\ _make_request("get_index", "GET", <<"v1.0", "indices", index_id>>, None, TRUE)

delete_index ==
    \E index_id \in IndexIds :
        /\ args' = [index_id |-> index_id]
        /\ _make_request("delete_index", "DELETE", <<"v1.0", "indices", index_id>>,
                         None, TRUE)

update_index_labels ==
    \E index_id \in IndexIds, labels \in LabelArgs :
        /\ args' = [index_id |-> index_id, labels |-> labels]
        /\ _make_request("update_index_labels", "PUT",
                         <<"v1.0", "indices", index_id, "labels">>,
                         Dict(<< <<Key("L", "abels"), Or(labels, List(<<>>))>> >>), TRUE)

\* mutant: the Tags field is left out of the body when tags is empty or absent
update_index_tags_omits_empty ==
    \E index_id \in IndexIds, tags \in TagArgs :
        /\ args' = [index_id |-> index_id, tags |-> tags]
        /\ _make_request("update_index_tags", "PUT",
                         <<"v1.0", "indices", index_id, "tags">>,
                         Dict(Items(<< <<Truthy(tags), Key("T", "ags"), tags>> >>)), TRUE)

update_index_tags ==
    \E index_id \in IndexIds, tags \in TagArgs :
        /\ args' = [index_id |-> index_id, tags |-> tags]
        /\ _make_request("update_index_tags", "PUT",
                         <<"v1.0", "indices", index_id, "tags">>,
                         Dict(<< <<Key("T", "ags"), Or(tags, Dict(<<>>))>> >>), TRUE)

list_documents ==
    \E index_id \in IndexIds :
        /\ args' = [index_id |-> index_id]
        /\ _make_request("list_documents", "GET",
                         <<"v1.0", "indices", index_id, "documents">>, None, TRUE)

add_document ==
    \E index_id \in IndexIds, content \in Contents,
       document_id \in {None} \cup {Str(x) : x \in DocumentIds},
       labels \in LabelArgs, tags \in TagArgs :
        LET data == Items(<<
                <<TRUE, Key("C", "ontent"), Str(content)>>,
                <<Truthy(document_id), Key("I", "d"), document_id>>,
                <<Truthy(labels), Key("L", "abels"), labels>>,
                <<Truthy(tags), Key("T", "ags"), tags>> >>)
        IN /\ args' = [index_id |-> index_id, content |-> content,
                       document_id |-> document_id, labels |-> labels, tags |-> tags]
           /\ _make_request("add_document", "POST",
                            <<"v1.0", "indices", index_id, "documents">>, Dict(data), TRUE)

get_document ==
    \E index_id \in IndexIds, document_id \in DocumentIds :
        /\ args' = [index_id |-> index_id, document_id |-> document_id]
        /\ _make_request("get_document", "GET",
                         <<"v1.0", "indices", index_id, "documents", document_id>>,
                         None, TRUE)

delete_document ==
    \E index_id \in IndexIds, document_id \in DocumentIds :
        /\ args' = [index_id |-> index_id, document_id |-> document_id]
        /\ _make_request("delete_document", "DELETE",
                         <<"v1.0", "indices", index_id, "documents", document_id>>,
                         None, TRUE)

update_document_labels ==
    \E index_id \in IndexIds, document_id \in DocumentIds, labels \in LabelArgs :
        /\ args' = [index_id |-> index_id, document_id |-> document_id, labels |-> labels]
        /\ _make_request("update_document_labels", "PUT",
                         <<"v1.0", "indices", index_id, "documents", document_id, "labels">>,
                         Dict(<< <<Key("L", "abels"), Or(labels, List(<<>>))>> >>), TRUE)

update_document_tags ==
    \E index_id \in IndexIds, document_id \in DocumentIds, tags \in TagArgs :
        /\ args' = [index_id |-> index_id, document_id |-> document_id, tags |-> tags]
        /\ _make_request("update_document_tags", "PUT",
                         <<"v1.0", "indices", index_id, "documents", document_id, "tags">>,
                         Dict(<< <<Key("T", "ags"), Or(tags, Dict(<<>>))>> >>), TRUE)

search ==
    \E index_id \in IndexIds, query \in Queries, labels \in LabelArgs, tags \in TagArgs :
        LET max_results == 100
            data == Items(<<
                <<TRUE, Key("Q", "uery"), Str(query)>>,
                <<TRUE, Key("M", "axResults"), Num(max_results)>>,
                <<Truthy(labels) /\ Len(labels.v) > 0, Key("L", "abels"), labels>>,
                <<Truthy(tags) /\ Len(tags.v) > 0, Key("T", "ags"), tags>> >>)
        IN /\ args' = [index_id |-> index_id, query |-> query,
                       labels |-> labels, tags |-> tags]
           /\ _make_request("search", "POST",
                            <<"v1.0", "indices", index_id, "search">>, Dict(data), TRUE)

(***************************************************************************)
(* Spec: a constructed client whose operations are called one at a time.   *)
(***************************************************************************)
\* VerbexClient(endpoint, access_key)
Init ==
    /\ client \in {[endpoint |-> "http://localhost:8080", access_key |-> k,
                     session |-> [headers |-> SessionHeaders]]
                      : k \in AccessKeys}
    /\ op = "none" /\ args = NoArgs /\ request = NoCall /\ sent = 0
    /\ reply = NoCall /\ outcome = NoCall
    /\ IdleNorm /\ IdleEnv /\ IdleHarness

Next ==
    \/ health_check
    \/ root_health_check
    \/ login
    \/ validate_token
    \/ list_indices
    \/ create_index
    \/ get_index
    \/ delete_index
    \/ update_index_labels
    \/ update_index_tags
    \/ list_documents
    \/ add_document
    \/ get_document
    \/ delete_document
    \/ update_document_labels
    \/ update_document_tags
    \/ search
    \/ ReceiveReply

Spec == Init /\ [][Next]_vars

(***************************************************************************)
(* SpecHarness: one run of the test harness (sdk/python/test_harness.py).  *)
(* A scenario body ends by returning, by a failed assertion or by another  *)
(* exception; printing a header or a result may fail, which is the         *)
(* exception that reaches the except clause of run.                        *)
(***************************************************************************)
\* the scenarios of run, in the order of its _run_test calls
Scenarios ==
    << "Root health check", "Health endpoint",
       "Login with valid credentials", "Login with invalid credentials",
       "Validate token", "Validate invalid token",
       "List indices (initial)", "Create index", "Create duplicate index fails",
       "Get index", "Get index not found", "List indices (after create)",
       "Create index with labels and tags", "Get index with labels and tags",
       "List documents (empty)", "Add document", "Add document with ID",
       "Add multiple documents", "List documents (after add)", "Get document",
       "Get document not found", "Add document with labels and tags",
       "Get document with labels and tags",
       "Basic search", "Search with results", "Search multiple terms",
       "Search with max results", "Search with no results", "Search documents helper",
       "Search with label filter", "Search with tag filter", "Search with labels and tags",
       "Delete document", "Delete document not found", "Verify document deleted",
       "Delete index", "Delete index not found", "Verify index deleted" >>

\* the first scenario of each section: the _print_subheader calls of run
SectionStarts ==
    [health |-> 1, authentication |-> 3, index_management |-> 7,
     document_management |-> 15, search |-> 24, cleanup |-> 33]

\* how the body of a scenario may end
ScenarioEndings ==
    { [kind |-> "return"],
      [kind |-> "raise", type |-> "AssertionError", text |-> "success should be True"],
      [kind |-> "raise", type |-> "VerbexError", text |-> "Request failed"] }

\* TestResult(name, passed, message)
TestResult(name, passed, message) == [name |-> name, passed |-> passed, message |-> message]

\* mutant: every failed scenario gets the diagnostic of an unexpected exception
ResultOfOneDiagnostic(name, ending) ==
    CASE ending.kind = "return" -> TestResult(name, TRUE, "")
      [] OTHER -> TestResult(name, FALSE, ending.type \o ": " \o ending.text)

\* the TestResult _run_test builds for a scenario body that ended with ending
ResultOf(name, ending) ==
    CASE ending.kind = "return" -> TestResult(name, TRUE, "")
      [] ending.type = "AssertionError" -> TestResult(name, FALSE, ending.text)
      [] OTHER -> TestResult(name, FALSE, ending.type \o ": " \o ending.text)

\* the command lines main may be started with: len(sys.argv)
ArgCounts == {1, 3, 4}

InitHarness ==
    /\ pc = "start" /\ position = 0 /\ _client = "none" /\ _results = <<>>
    /\ _passed = 0 /\ _failed = 0 /\ fatal = FALSE /\ exit_status = NoExit
    /\ ended = NoCall /\ IdleScenarios
    /\ IdleNorm /\ IdleEnv /\ IdleCall

\* main up to the first scenario of run: the usage exit, or a TestHarness
\* and its client constructed
main ==
    /\ pc = "start"
    /\ \E argc \in ArgCounts :
          IF argc # 3
          THEN pc' = "exited" /\ exit_status' = 1 /\ _client' = _client
          ELSE pc' = "running" /\ exit_status' = exit_status /\ _client' = "open"
    /\ UNCHANGED <<position, _results, _passed, _failed, fatal, ended, scenarioVars>>
    /\ UNCHANGED <<normVars, envVars, client, callVars>>

\* the except clause and the finally clause of run, then its summary and
\* its return value, for counters passed and failed
Abort(passed, failed) ==
    /\ fatal' = TRUE
    /\ _passed' = passed
    /\ _failed' = failed + 1
    /\ _client' = "closed"
    /\ exit_status' = IF failed + 1 = 0 THEN 0 ELSE 1
    /\ pc' = "exited"

\* mutant: a scenario that fails is recorded and ends the run
_run_test_stops_on_failure ==
    /\ pc = "running" /\ position < Len(Scenarios)
    /\ position' = position + 1
    /\ \E ending \in ScenarioEndings, printed \in BOOLEAN :
          LET result == ResultOf(Scenarios[position + 1], ending)
              passed == IF result.passed THEN _passed + 1 ELSE _passed
              failed == IF result.passed THEN _failed ELSE _failed + 1
          IN /\ ~result.passed => _failed < MaxFailures
             /\ _results' = Append(_results, result)
             /\ IF ~printed
                THEN Abort(passed, failed)
                ELSE /\ _passed' = passed /\ _failed' = failed /\ fatal' = fatal
                     /\ IF result.passed
                        THEN UNCHANGED <<pc, _client, exit_status>>
                        ELSE pc' = "exited" /\ _client' = "closed" /\ exit_status' = 1
             /\ ended' = ending
    /\ UNCHANGED scenarioVars
    /\ UNCHANGED <<normVars, envVars, client, callVars>>

\* mutant: a scenario that ends with an exception other than a failed
\* assertion is counted but not recorded
_run_test_drops_exceptions ==
    /\ pc = "running" /\ position < Len(Scenarios)
    /\ position' = position + 1
    /\ \E ending \in ScenarioEndings, printed \in BOOLEAN :
          LET result == ResultOf(Scenarios[position + 1], ending)
              passed == IF result.passed THEN _passed + 1 ELSE _passed
              failed == IF result.passed THEN _failed ELSE _failed + 1
          IN /\ ~result.passed => _failed < MaxFailures
             /\ _results' = IF ending.kind = "raise" /\ ending.type # "AssertionError"
                            THEN _results
                            ELSE Append(_results, result)
             /\ IF printed
                THEN /\ _passed' = passed /\ _failed' = failed
                     /\ UNCHANGED <<pc, _client, fatal, exit_status>>
                ELSE Abort(passed, failed)
             /\ ended' = ending
    /\ UNCHANGED scenarioVars
    /\ UNCHANGED <<normVars, envVars, client, callVars>>

\* the next _run_test call of run: the scenario body runs and ends, its
\* TestResult is counted, appended and printed; the print failing takes the
\* run to its except clause
_run_test ==
    /\ pc = "running" /\ position < Len(Scenarios)
    /\ position' = position + 1
    /\ \E ending \in ScenarioEndings, printed \in BOOLEAN :
          LET result == ResultOf(Scenarios[position + 1], ending)
              passed == IF result.passed THEN _passed + 1 ELSE _passed
              failed == IF result.passed THEN _failed ELSE _failed + 1
          IN /\ ~result.passed => _failed < MaxFailures
             /\ _results' = Append(_results, result)
             /\ IF printed
                THEN /\ _passed' = passed /\ _failed' = failed
                     /\ UNCHANGED <<pc, _client, fatal, exit_status>>
                ELSE Abort(passed, failed)
             /\ ended' = ending
    /\ UNCHANGED scenarioVars
    /\ UNCHANGED <<normVars, envVars, client, callVars>>

\* a _print_subheader call of run fails: the run goes to its except clause
\* before the section's first scenario
_print_subheader ==
    /\ pc = "running"
    /\ \E section \in DOMAIN SectionStarts : position + 1 = SectionStarts[section]
    /\ Abort(_passed, _failed)
    /\ UNCHANGED <<position, _results, ended, scenarioVars>>
    /\ UNCHANGED <<normVars, envVars, client, callVars>>

\* mutant: the run returns 0 whenever it reaches its summary
SummaryAlwaysZero ==
    /\ pc = "running" /\ position = Len(Scenarios)
    /\ _client' = "closed"
    /\ exit_status' = 0
    /\ pc' = "exited"
    /\ UNCHANGED <<position, _results, _passed, _failed, fatal, ended, scenarioVars>>
    /\ UNCHANGED <<normVars, envVars, client, callVars>>

\* the end of run after the last scenario: the finally clause, the summary
\* and the return value, which main hands to sys.exit
Summary ==
    /\ pc = "running" /\ position = Len(Scenarios)
    /\ _client' = "closed"
    /\ exit_status' = IF _failed = 0 THEN 0 ELSE 1
    /\ pc' = "exited"
    /\ UNCHANGED <<position, _results, _passed, _failed, fatal, ended, scenarioVars>>
    /\ UNCHANGED <<normVars, envVars, client, callVars>>

NextHarness ==
    \/ main
    \/ _run_test
    \/ _print_subheader
    \/ Summary

SpecHarness == InitHarness /\ [][NextHarness]_vars

(***************************************************************************)
(* SpecRun: one run of the harness with the bodies of its scenarios, the   *)
(* calls each makes on its client and what it does with their outcomes,    *)
(* against a server that stores indices and documents. The server answers  *)
(* a request as the scenarios expect of it or, at most MaxFaults times in  *)
(* a run, in one of the other ways _make_request can end; a fault planned  *)
(* for a call that is not made, or made of a server that is down, is spare *)
(* and its plan is not a run.                                              *)
(***************************************************************************)
\* self._test_index_id and the ids of the two temporary indices
TestIndex == "test-index"
LabeledIndex == "test-labeled"
LabeledGetIndex == "test-labeled-get"
\* the ids the server gives to documents added without one
GeneratedIds ==
    << "generated-1", "generated-2", "generated-3", "generated-4", "generated-5",
       "generated-6" >>

\* what a call made of its request: an envelope returned as expected ("ok"),
\* an envelope with success not True ("unsuccessful"), an envelope with
\* success True and other fields than expected ("flawed"), or an exception
Answered(kind, status) ==
    [kind |-> kind, status |-> status, id |-> "", name |-> "", count |-> 0,
     hits |-> FALSE, listed |-> {}]

HasIndex(s, id) == \E i \in s.indices : i.id = id
HasDocument(s, id) == \E d \in s.documents : d.id = id
\* the id under which the server stores the document of an add_document
StoredId(s, r) == IF r.document # "" THEN r.document ELSE GeneratedIds[s.generated + 1]

\* the server after it has done what request r asks for
Perform(s, r) ==
    CASE r.op = "create_index" ->
           [s EXCEPT !.indices =
                {i \in @ : i.id # r.index} \cup {[id |-> r.index, name |-> r.name]}]
      [] r.op = "delete_index" ->
           [s EXCEPT !.indices = {i \in @ : i.id # r.index},
                     !.documents = IF r.index = TestIndex THEN {} ELSE @]
      [] r.op = "add_document" /\ HasIndex(s, r.index) ->
           [s EXCEPT !.documents = @ \cup {[id |-> StoredId(s, r), content |-> r.content]},
                     !.generated = IF r.document = "" THEN @ + 1 ELSE @]
      [] r.op = "delete_document" ->
           [s EXCEPT !.documents = {d \in @ : d.id # r.document}]
      [] OTHER -> s

\* the answer the scenarios expect of the server to request r
Contract(s, r) ==
    IF ~s.up THEN Answered("VerbexError", 0)
    ELSE IF r.op \in {"root_health_check", "health_check"} THEN Answered("ok", 200)
    ELSE IF r.op \in {"login", "validate_token"}
    THEN IF r.valid THEN Answered("ok", 200) ELSE Answered("VerbexError", 401)
    ELSE IF r.op = "list_indices"
    THEN [Answered("ok", 200) EXCEPT !.listed = {i.id : i \in s.indices}]
    ELSE IF r.op = "create_index"
    THEN IF HasIndex(s, r.index)
         THEN Answered("VerbexError", 409)
         ELSE [Answered("ok", 201) EXCEPT !.id = r.index, !.name = r.name]
    ELSE IF ~HasIndex(s, r.index) THEN Answered("VerbexError", 404)
    ELSE IF r.op = "get_index"
    THEN [Answered("ok", 200) EXCEPT
             !.id = r.index, !.name = (CHOOSE i \in s.indices : i.id = r.index).name]
    ELSE IF r.op = "delete_index" THEN Answered("ok", 200)
    ELSE IF r.op = "list_documents"
    THEN [Answered("ok", 200) EXCEPT !.count = Cardinality(s.documents)]
    ELSE IF r.op = "add_document"
    THEN [Answered("ok", 201) EXCEPT !.id = StoredId(s, r)]
    ELSE IF r.op = "search"
    THEN [Answered("ok", 200) EXCEPT !.hits = \E d \in s.documents : d.content \in r.matches]
    ELSE IF ~HasDocument(s, r.document) THEN Answered("VerbexError", 404)
    ELSE [Answered("ok", 200) EXCEPT !.id = r.document]

\* the ways a request can be answered against the contract: refused with a
\* server error, refused in an envelope that carries no error status, done
\* and answered with other fields than expected, done and answered with a
\* body that is no mapping, not answered because the server has gone down,
\* which it then stays
FaultKinds == {"rejected", "unsuccessful", "flawed", "garbled", "down"}

\* the server after request r and the outcome of the call that made it
Answer(s, r, fault) ==
    CASE fault = "none" ->
           LET a == Contract(s, r)
           IN [server |-> IF a.kind = "ok" THEN Perform(s, r) ELSE s, reply |-> a]
      [] fault = "rejected" -> [server |-> s, reply |-> Answered("VerbexError", 500)]
      [] fault = "unsuccessful" -> [server |-> s, reply |-> Answered("unsuccessful", 0)]
      [] fault = "flawed" -> [server |-> Perform(s, r), reply |-> Answered("flawed", 200)]
      [] fault = "garbled" ->
           [server |-> Perform(s, r), reply |-> Answered("AttributeError", 200)]
      [] fault = "down" ->
           [server |-> [s EXCEPT !.up = FALSE], reply |-> Answered("VerbexError", 0)]

\* the faults of the n calls of a scenario, at most budget of them
RECURSIVE FaultPlans(_, _)
FaultPlans(n, budget) ==
    IF n = 0
    THEN {<<>>}
    ELSE {Append(p, "none") : p \in FaultPlans(n - 1, budget)}
         \cup (IF budget = 0
               THEN {}
               ELSE {Append(p, f) : p \in FaultPlans(n - 1, budget - 1), f \in FaultKinds})

\* a statement of a scenario body. A call of a client operation with what
\* the scenario expects of it: "returns" with the assertions made on the
\* envelope, or "raises" a VerbexError of the given status
Step ==
    [k |-> "call", op |-> "", index |-> "", document |-> "", name |-> "", content |-> "",
     valid |-> TRUE, matches |-> {}, via |-> "_client", expect |-> "returns", status |-> 200,
     asserts |-> {"success", "fields"}, check |-> "", always |-> FALSE]
Calls(operation) == [Step EXCEPT !.op = operation]
OnIndex(operation, index) == [Step EXCEPT !.op = operation, !.index = index]
OnDocument(operation, document) ==
    [Step EXCEPT !.op = operation, !.index = TestIndex, !.document = document]
Creates(index, name) ==
    [Step EXCEPT !.op = "create_index", !.index = index, !.name = name, !.status = 201]
Adds(content, document) ==
    [Step EXCEPT !.op = "add_document", !.index = TestIndex, !.document = document,
                 !.content = content, !.status = 201]
Searches(matches) == [Step EXCEPT !.op = "search", !.index = TestIndex, !.matches = matches]
\* try: the call; _assert(False, "Should have thrown"); except VerbexError
Raises(step, status) == [step EXCEPT !.expect = "raises", !.status = status]
\* a call whose envelope the scenario does not look at
Unasserted(step) == [step EXCEPT !.asserts = {}]
\* a call of whose envelope only success is asserted
SuccessOnly(step) == [step EXCEPT !.asserts = {"success"}]
\* an assertion that compares the envelope's data with what the harness knows
Checks(step, check) == [step EXCEPT !.check = check]
\* self._test_documents.append(...): of the given id, or of the documentId
\* of the last envelope
Tracks(document) == [Step EXCEPT !.k = "append", !.document = document]
\* doc_id = self._test_documents.pop(), after the test for an empty list
Pops(otherwise) == [Step EXCEPT !.k = "pop", !.check = otherwise]
\* doc_id = self._test_documents[0]
First == [Step EXCEPT !.k = "first"]
\* invalid_client = VerbexClient(...) and, in the finally clause, its close()
Opens == [Step EXCEPT !.k = "open"]
Closes == [Step EXCEPT !.k = "close", !.always = TRUE]
\* the id held in doc_id, and the documentId of the last envelope
Held == "<doc_id>"
Replied == "<documentId>"

\* mutant: the run reads the test index before it creates it
ScriptReadsBeforeCreate(name) ==
    IF name = "List indices (initial)"
    THEN << Calls("list_indices"), OnIndex("get_index", TestIndex) >>
    ELSE << Calls("health_check") >>

\* the body of each scenario: test_root_health_check .. test_verify_index_deleted
Script(name) ==
    CASE name = "Root health check" -> << Calls("root_health_check") >>
      [] name = "Health endpoint" -> << Calls("health_check") >>
      [] name = "Login with valid credentials" -> << Calls("login") >>
      [] name = "Login with invalid credentials" ->
           << Raises([Calls("login") EXCEPT !.valid = FALSE], 401) >>
      [] name = "Validate token" -> << Calls("validate_token") >>
      [] name = "Validate invalid token" ->
           << Opens,
              Raises([Calls("validate_token") EXCEPT !.valid = FALSE,
                                                     !.via = "invalid_client"], 401),
              Closes >>
      [] name = "List indices (initial)" -> << Calls("list_indices") >>
      [] name = "Create index" -> << Creates(TestIndex, "Test Index") >>
      [] name = "Create duplicate index fails" ->
           << Raises(Creates(TestIndex, "Duplicate"), 409) >>
      [] name = "Get index" -> << Checks(OnIndex("get_index", TestIndex), "named") >>
      [] name = "Get index not found" ->
           << Raises(OnIndex("get_index", "non-existent-index-12345"), 404) >>
      [] name = "List indices (after create)" -> << Checks(Calls("list_indices"), "listed") >>
      [] name = "Create index with labels and tags" ->
           << Creates(LabeledIndex, "Labeled Test Index"),
              Unasserted(OnIndex("delete_index", LabeledIndex)) >>
      [] name = "Get index with labels and tags" ->
           << Unasserted(Creates(LabeledGetIndex, "Get Labeled Index")),
              Checks(OnIndex("get_index", LabeledGetIndex), "same"),
              Unasserted(OnIndex("delete_index", LabeledGetIndex)) >>
      [] name = "List documents (empty)" ->
           << Checks(OnIndex("list_documents", TestIndex), "empty") >>
      [] name = "Add document" -> << Adds("fox", ""), Tracks(Replied) >>
      [] name = "Add document with ID" ->
           << Checks(Adds("python", "document-with-id"), "same document"),
              Tracks("document-with-id") >>
      [] name = "Add multiple documents" ->
           << SuccessOnly(Adds("machine learning", "")), Tracks(Replied),
              SuccessOnly(Adds("language", "")), Tracks(Replied),
              SuccessOnly(Adds("deep learning", "")), Tracks(Replied),
              SuccessOnly(Adds("cloud", "")), Tracks(Replied) >>
      [] name = "List documents (after add)" ->
           << Checks(SuccessOnly(OnIndex("list_documents", TestIndex)), "tracked") >>
      [] name = "Get document" ->
           << First, Checks(OnDocument("get_document", Held), "same document") >>
      [] name = "Get document not found" ->
           << Raises(OnDocument("get_document", "fake-document-get"), 404) >>
      [] name = "Add document with labels and tags" ->
           << Adds("metadata", ""), Tracks(Replied) >>
      [] name = "Get document with labels and tags" ->
           << Unasserted(Adds("verifying", "document-labeled")),
              OnDocument("get_document", "document-labeled"),
              Tracks("document-labeled") >>
      [] name = "Basic search" -> << Searches({"fox"}) >>
      [] name = "Search with results" ->
           << Checks(SuccessOnly(Searches({"machine learning", "deep learning"})), "hits") >>
      [] name = "Search multiple terms" ->
           << Searches({"machine learning", "deep learning"}) >>
      [] name = "Search with max results" -> << Searches({"fox"}) >>
      [] name = "Search with no results" -> << Checks(SuccessOnly(Searches({})), "no hits") >>
      [] name = "Search documents helper" -> << Searches({"python"}) >>
      [] name = "Search with label filter" ->
           << Unasserted(Adds("searchable", "document-label-filter")),
              Tracks("document-label-filter"),
              Checks(SuccessOnly(Searches({"searchable"})), "hits"),
              Checks(SuccessOnly(Searches({})), "no hits") >>
      [] name = "Search with tag filter" ->
           << Unasserted(Adds("taggable", "document-tag-filter")),
              Tracks("document-tag-filter"),
              Checks(SuccessOnly(Searches({"taggable"})), "hits"),
              Checks(SuccessOnly(Searches({})), "no hits") >>
      [] name = "Search with labels and tags" ->
           << Unasserted(Adds("comprehensive", "document-both-filters")),
              Tracks("document-both-filters"),
              Checks(SuccessOnly(Searches({"comprehensive"})), "hits") >>
      [] name = "Delete document" ->
           << Pops("raise"), OnDocument("delete_document", Held) >>
      [] name = "Delete document not found" ->
           << Raises(OnDocument("delete_document", "fake-document-delete"), 404) >>
      [] name = "Verify document deleted" ->
           << Pops("return"),
              Unasserted(OnDocument("delete_document", Held)),
              Raises(OnDocument("get_document", Held), 404) >>
      [] name = "Delete index" -> << OnIndex("delete_index", TestIndex) >>
      [] name = "Delete index not found" ->
           << Raises(OnIndex("delete_index", "non-existent-index-67890"), 404) >>
      [] name = "Verify index deleted" -> << Raises(OnIndex("get_index", TestIndex), 404) >>

\* how a scenario body goes on after a statement, or ends
Continues == [kind |-> "continue"]
Passes == [kind |-> "return"]
Fails(text) == [kind |-> "raise", type |-> "AssertionError", text |-> text]
Throws(type, text) == [kind |-> "raise", type |-> type, text |-> text]

\* mutant: the name of the index fetched is not compared
SatisfiesWithoutName(check, step, document, got, documents) ==
    CASE check = "named" -> got.id = step.index
      [] check = "same" -> got.id = step.index
      [] check = "same document" -> got.id = document
      [] check = "listed" -> TestIndex \in got.listed
      [] check = "empty" -> got.count = 0
      [] check = "tracked" -> got.count = Len(documents)
      [] check = "hits" -> got.hits
      [] check = "no hits" -> ~got.hits
      [] OTHER -> TRUE

\* the assertions of a scenario on the data of an envelope
Satisfies(check, step, document, got, documents) ==
    CASE check = "named" -> got.id = step.index /\ got.name = "Test Index"
      [] check = "same" -> got.id = step.index
      [] check = "same document" -> got.id = document
      [] check = "listed" -> TestIndex \in got.listed
      [] check = "empty" -> got.count = 0
      [] check = "tracked" -> got.count = Len(documents)
      [] check = "hits" -> got.hits
      [] check = "no hits" -> ~got.hits
      [] OTHER -> TRUE

\* what the scenario does with the outcome of a call
Reaction(step, document, got, documents) ==
    IF got.kind = "AttributeError"
    THEN Throws("AttributeError", "'str' object has no attribute 'get'")
    ELSE IF got.kind = "VerbexError"
    THEN IF step.expect = "raises"
         THEN IF got.status = step.status
              THEN Continues
              ELSE Fails("error.status_code is not the expected one")
         ELSE Throws("VerbexError", "Request failed")
    ELSE IF step.expect = "raises" THEN Fails("Should have thrown VerbexError")
    ELSE IF got.kind = "unsuccessful" /\ "success" \in step.asserts
    THEN Fails("response.success should be True")
    ELSE IF got.kind = "flawed" /\ "fields" \in step.asserts
    THEN Fails("response.status_code is not the expected one")
    ELSE IF ~Satisfies(step.check, step, document, got, documents)
    THEN Fails(step.check)
    ELSE Continues

\* a scenario body before its first statement, in scenario number n
Entered(n) ==
    [scenario |-> n, running |-> TRUE, ended |-> Passes, documents |-> _test_documents,
     doc_id |-> "", last |-> Answered("none", 0), invalid |-> invalid_client,
     calls |-> calls, server |-> server, faults |-> faults, spare |-> FALSE]

\* the body has ended with ending
Ends(st, ending) == [st EXCEPT !.running = FALSE, !.ended = ending]

\* a call of a client operation: the request, the server's answer, the
\* scenario's reaction. The call is logged with its outcome and, for a
\* delete_document, with the ids tracked when it was made
Call(step, fault, st) ==
    LET document == IF step.document = Held THEN st.doc_id ELSE step.document
        r == [op |-> step.op, index |-> step.index, document |-> document,
              name |-> step.name, content |-> step.content, valid |-> step.valid,
              matches |-> step.matches]
        answer == Answer(st.server, r, fault)
        called == [scenario |-> st.scenario, op |-> step.op, index |-> step.index,
                   document |-> document, via |-> step.via,
                   reply |-> answer.reply.kind, status |-> answer.reply.status,
                   id |-> answer.reply.id,
                   tracked |-> IF step.op = "delete_document" THEN st.documents ELSE <<>>]
        after == [st EXCEPT !.server = answer.server, !.last = answer.reply,
                            !.calls = Append(@, called),
                            !.faults = IF fault = "none" THEN @ ELSE @ + 1,
                            !.spare = @ \/ (fault # "none" /\ ~st.server.up)]
        reaction == Reaction(step, document, answer.reply, st.documents)
    IN IF reaction = Continues THEN after ELSE Ends(after, reaction)

\* a statement on self._test_documents or on the invalid client
Statement(step, st) ==
    CASE step.k = "append" ->
           [st EXCEPT !.documents =
                Append(@, IF step.document = Replied THEN st.last.id ELSE step.document)]
      [] step.k = "first" ->
           IF st.documents = <<>>
           THEN Ends(st, Throws("IndexError", "list index out of range"))
           ELSE [st EXCEPT !.doc_id = st.documents[1]]
      [] step.k = "pop" ->
           IF st.documents = <<>>
           THEN Ends(st, IF step.check = "return"
                         THEN Passes
                         ELSE Fails("No test documents to delete"))
           ELSE [st EXCEPT !.doc_id = st.documents[Len(st.documents)],
                           !.documents = SubSeq(@, 1, Len(@) - 1)]
      [] step.k = "open" -> [st EXCEPT !.invalid = "open"]
      [] step.k = "close" -> [st EXCEPT !.invalid = "closed"]

\* mutant: the invalid client is closed only when validate_token raised
\* the VerbexError expected
LiveWhileRunning(step, st) == st.running

\* a statement is executed while the body has not ended, and in a finally
\* clause whatever ended it
Live(step, st) == st.running \/ step.always

\* the statements of a body one after the other; plan gives the fault of
\* each of its calls
RECURSIVE RunSteps(_, _, _)
RunSteps(steps, plan, st) ==
    IF steps = <<>>
    THEN st
    ELSE LET step == Head(steps)
             isCall == step.k = "call"
             fault == IF isCall THEN Head(plan) ELSE "none"
             after == IF Live(step, st)
                      THEN IF isCall THEN Call(step, fault, st) ELSE Statement(step, st)
                      ELSE [st EXCEPT !.spare = @ \/ fault # "none"]
         IN RunSteps(Tail(steps), IF isCall THEN Tail(plan) ELSE plan, after)

\* the number of calls in a body
CallsIn(steps) == Len(SelectSeq(steps, LAMBDA step : step.k = "call"))

\* the next _run_test call of run with the body of its scenario: the body
\* runs against the server, its TestResult is counted, appended and printed
RunScenario ==
    /\ pc = "running" /\ position < Len(Scenarios)
    /\ position' = position + 1
    /\ LET name == Scenarios[position + 1]
           steps == Script(name)
       IN \E plan \in FaultPlans(CallsIn(steps), MaxFaults - faults), printed \in BOOLEAN :
             LET st == RunSteps(steps, plan, Entered(position + 1))
                 result == ResultOf(name, st.ended)
                 passed == IF result.passed THEN _passed + 1 ELSE _passed
                 failed == IF result.passed THEN _failed ELSE _failed + 1
             IN /\ ~st.spare
                /\ _results' = Append(_results, result)
                /\ IF printed
                   THEN /\ _passed' = passed /\ _failed' = failed
                        /\ UNCHANGED <<pc, _client, fatal, exit_status>>
                   ELSE Abort(passed, failed)
                /\ ended' = st.ended
                /\ _test_documents' = st.documents
                /\ invalid_client' = st.invalid
                /\ calls' = st.calls
                /\ server' = st.server
                /\ faults' = st.faults
    /\ UNCHANGED <<normVars, envVars, client, callVars>>

NextRun ==
    \/ main
    \/ RunScenario
    \/ _print_subheader
    \/ Summary

SpecRun == InitHarness /\ [][NextRun]_vars

(***************************************************************************)
(* Properties.                                                             *)
(***************************************************************************)
\* the call has ended
Done == outcome.kind \in {"return", "raise"}
\* the call ended with an envelope: returned, or carried by the VerbexError
HasEnvelope ==
    \/ outcome.kind = "return"
    \/ outcome.kind = "raise" /\ outcome.type = "VerbexError" /\ outcome.response # None
RaisedVerbexError == outcome.kind = "raise" /\ outcome.type = "VerbexError"
\* the transport answered, and the body was no JSON document
Undecodable == reply.kind = "response" /\ ~reply.decodes
\* x is a number and at least n
AtLeast(x, n) == x.t = "int" /\ x.v >= n
Below(x, n) == x.t = "int" /\ x.v < n

C2_ReturnedIsSuccessful ==
    outcome.kind = "return" => Truthy(outcome.response.success)

\* C2 (amended): no operation returns an envelope whose success flag is
\* false and whose status_code is 400 or more; a returned envelope has a
\* true success flag or a status_code below 400.
C2_NoFailedEnvelopeReturned ==
    outcome.kind = "return" =>
        \/ Truthy(outcome.response.success)
        \/ Below(outcome.response.status_code, 400)
        \/ outcome.response.status_code.t = "bool"

C2_Witness ==
    /\ outcome.kind = "return"
    /\ outcome.response.success = Bool(FALSE)
    /\ outcome.response.status_code = Num(200)

\* C3: for every reply with a decoded body, the operation raises VerbexError
\* exactly when the envelope built from the body has success false and
\* status_code >= 400, and otherwise returns that envelope.
C3_RaisesExactlyOnFailure ==
    reply.kind = "response" /\ reply.decodes /\ Done =>
        IF reply.json.t = "dict"
        THEN LET api_response == from_dict(reply.json)
             IN IF ~Truthy(api_response.success) /\ AtLeast(api_response.status_code, 400)
                THEN RaisedVerbexError
                ELSE outcome = Returned(api_response)
        ELSE outcome.kind = "return"

\* the value the field of a payload resolves to by presence
ByPresence(d, field, default) ==
    IF HasKey(d.v, Cap[field]) THEN Lookup(d.v, Cap[field])
    ELSE IF HasKey(d.v, Low[field]) THEN Lookup(d.v, Low[field])
    ELSE default

Default(field) ==
    CASE field = "success" -> Bool(FALSE)
      [] field = "status_code" -> Num(0)
      [] OTHER -> None

\* no key of the payload holds null
NoNulls(d) == \A i \in 1..Len(d.v) : d.v[i][2] # None

\* C4: every field of the envelope is the value of the capitalized key if
\* that key is present, else of the lowercase key if present, else the
\* default, also when the capitalized key holds a falsy value (stated for
\* the payloads that hold no null).
C4_ResolvedByPresence ==
    envelope # NoEnvelope /\ NoNulls(payload) =>
        \A field \in Fields \ {"data"} :
            PyEq(envelope[field], ByPresence(payload, field, Default(field)))

\* the Data/data value the payload carries: the first that is present and
\* not null
Carried(d) ==
    IF HasKey(d.v, Cap.data) /\ Lookup(d.v, Cap.data) # None THEN Lookup(d.v, Cap.data)
    ELSE IF HasKey(d.v, Low.data) /\ Lookup(d.v, Low.data) # None THEN Lookup(d.v, Low.data)
    ELSE None

\* C5: data is null only when the payload carries no Data/data value; a
\* value that is present and not null, an empty or falsy one included,
\* yields the normalizer's output for it.
C5_DataNullOnlyWhenAbsent ==
    envelope # NoEnvelope =>
        /\ PyEq(envelope.data, _to_camel_case_keys(Carried(payload)))
        /\ envelope.data = None => Carried(payload) = None

\* C6: a transport failure ends the call with VerbexError, status_code 0 and
\* a non-empty message; the transport's exception does not reach the caller.
C6_TransportFailureIsVerbexError ==
    reply.kind = "exception" =>
        /\ RaisedVerbexError
        /\ outcome.status_code = Num(0)
        /\ outcome.message.t = "str" /\ outcome.message.v # ""

C6_Witness ==
    /\ reply.kind = "exception" /\ reply.type = "Timeout" /\ reply.text = ""
    /\ outcome.kind = "raise"

\* C7: whatever the body of the reply (a JSON mapping, another JSON value,
\* a mapping with null status fields, no JSON), the call returns an
\* envelope or raises VerbexError.
C7_ReturnsOrRaisesVerbexError ==
    reply.kind = "response" /\ Done => outcome.kind = "return" \/ RaisedVerbexError

C9_NotFoundRaises404 ==
    /\ op \in {"get_index", "get_document", "delete_index", "delete_document"}
    /\ reply.kind = "response" /\ reply.status_code = 404
    /\ reply.decodes => reply.json.t = "dict"
    => RaisedVerbexError /\ outcome.status_code = Num(404)

\* C10: normalizing again changes nothing: every later pass of the
\* normalizer returns what the first pass returned.
C10_Idempotent ==
    \A i \in 2..Len(results) : results[i] = results[1] /\ PyEq(results[i], results[1])

\* a list holding a mapping that gained the id alias, normalized twice
C10_Witness ==
    /\ Len(results) >= 2
    /\ tree.t = "list" /\ Len(tree.v) > 0
    /\ tree.v[1].t = "dict"
    /\ HasKey(tree.v[1].v, Key("D", "ocumentId"))
    /\ ~HasKey(tree.v[1].v, Key("I", "d")) /\ ~HasKey(tree.v[1].v, IdKey)
    /\ HasKey(results[1].v[1].v, IdKey)

\* the first output of the normalizer has been computed
Normalized == Len(results) >= 1

\* the key with its first character lowercased
FirstLowered(key) == IF key = EmptyKey THEN key ELSE <<lower(key[1]), key[2]>>

\* the items of a mapping whose key, first character lowercased, is key
ItemsNamed(items, key) == {i \in 1..Len(items) : FirstLowered(items[i][1]) = key}

\* y.v[j] is an id alias that no entry of x accounts for
AddedAlias(x, y, j) ==
    /\ y.v[j][1] = IdKey
    /\ ItemsNamed(x.v, IdKey) = {}
    /\ HasKey(y.v, DocumentIdKey)

RECURSIVE SameStructure(_, _)
\* y has the structure of x: a sequence has the length of its input and
\* elements of the same structure in the same order; a mapping has one entry
\* per input entry, in the same order, and at most one more, the id alias
SameStructure(x, y) ==
    CASE x.t = "list" ->
            /\ y.t = "list" /\ Len(y.v) = Len(x.v)
            /\ \A i \in 1..Len(x.v) : SameStructure(x.v[i], y.v[i])
      [] x.t = "dict" ->
            /\ y.t = "dict"
            /\ \/ Len(y.v) = Len(x.v)
               \/ Len(y.v) = Len(x.v) + 1 /\ AddedAlias(x, y, Len(y.v))
            /\ \A i \in 1..Len(x.v) : SameStructure(x.v[i][2], y.v[i][2])
      [] OTHER -> y.t = x.t

\* C11: the output has the structure of the input: every mapping at every
\* depth has one output entry per input entry (apart from an added id
\* alias), also when two keys differ only in the case of their first
\* character, and every sequence keeps its length and order.
C11_StructurePreserved == Normalized => SameStructure(tree, results[1])

RECURSIVE KeysLowered(_, _, _)
\* every key of every mapping of y is a key of the matching mapping of x
\* with its first character lowercased (or, when aliases are allowed, the
\* added id alias), every key of x has its lowercased key in y, scalars
\* and null are unchanged
KeysLowered(x, y, aliases) ==
    CASE x.t = "list" ->
            /\ y.t = "list" /\ Len(y.v) = Len(x.v)
            /\ \A i \in 1..Len(x.v) : KeysLowered(x.v[i], y.v[i], aliases)
      [] x.t = "dict" ->
            /\ y.t = "dict"
            /\ \A i \in 1..Len(x.v) : HasKey(y.v, FirstLowered(x.v[i][1]))
            /\ \A j \in 1..Len(y.v) :
                  \/ \E i \in ItemsNamed(x.v, y.v[j][1]) :
                        KeysLowered(x.v[i][2], y.v[j][2], aliases)
                  \/ aliases /\ AddedAlias(x, y, j)
      [] OTHER -> y = x

\* C12 (as stated): each key of each mapping of the output, at every depth
\* and inside every sequence element, is the corresponding input key with
\* its first character lowercased; scalars are unchanged, null gives null.
C12_EveryKeyIsInputKeyLowered == Normalized => KeysLowered(tree, results[1], FALSE)

\* C12 (amended): each key of each mapping of the output, apart from the
\* derived id alias of a mapping that has documentId and was given no id,
\* is the corresponding input key with its first character lowercased;
\* scalars are unchanged, null gives null.
C12_KeysLoweredApartFromAlias == Normalized => KeysLowered(tree, results[1], TRUE)

\* a mapping nested in a sequence nested in a mapping, its key lowercased
C12_Witness ==
    /\ Normalized
    /\ tree.t = "dict" /\ Len(tree.v) = 1 /\ tree.v[1][1] = Key("I", "d")
    /\ tree.v[1][2].t = "list" /\ Len(tree.v[1][2].v) = 1
    /\ tree.v[1][2].v[1] = Dict(<< <<Key("D", "ocumentId"), None>> >>)
    /\ results[1].v[1][1] = IdKey
    /\ HasKey(results[1].v[1][2].v[1].v, DocumentIdKey)

RECURSIVE AliasRule(_, _)
\* in y, the output for x, every mapping with documentId that was given no
\* id has id = str(documentId), every mapping that was given an id (as id
\* or Id) has the output of that value as its id, and every mapping
\* without documentId has an id only if it was given one; of the entries
\* of x whose keys collide, the last one is the one y holds
AliasRule(x, y) ==
    CASE x.t = "list" -> \A i \in 1..Len(x.v) : AliasRule(x.v[i], y.v[i])
      [] x.t = "dict" ->
            /\ IF ItemsNamed(x.v, IdKey) # {}
               THEN /\ HasKey(y.v, IdKey)
                    /\ \E i \in ItemsNamed(x.v, IdKey) :
                          Lookup(y.v, IdKey) = _to_camel_case_keys(x.v[i][2])
               ELSE IF HasKey(y.v, DocumentIdKey)
                    THEN /\ HasKey(y.v, IdKey)
                         /\ Lookup(y.v, IdKey) = PyStr(Lookup(y.v, DocumentIdKey))
                    ELSE ~HasKey(y.v, IdKey)
            /\ \A j \in 1..Len(y.v) :
                  \A i \in ItemsNamed(x.v, y.v[j][1]) :
                      (\A n \in ItemsNamed(x.v, y.v[j][1]) : n <= i)
                          => AliasRule(x.v[i][2], y.v[j][2])
      [] OTHER -> TRUE

\* C13: a mapping with documentId and no id gains id = str(documentId); a
\* mapping that already has an id, sent as id or Id, keeps that value; a
\* mapping without documentId gains no id.
C13_AliasOnlyWhenMissing == Normalized => AliasRule(tree, results[1])

\* a mapping sent with DocumentId and Id: the id it was sent is kept
C13_Witness ==
    /\ Normalized
    /\ tree = Dict(<< <<Key("D", "ocumentId"), Num(7)>>, <<Key("I", "d"), None>> >>)
    /\ results[1] = Dict(<< <<DocumentIdKey, Num(7)>>, <<IdKey, None>> >>)

\* a mapping sent with DocumentId only: the alias is the string "7"
C13_AliasAdded ==
    /\ Normalized
    /\ tree = Dict(<< <<Key("D", "ocumentId"), Num(7)>> >>)
    /\ results[1] = Dict(<< <<DocumentIdKey, Num(7)>>, <<IdKey, Str("7")>> >>)

\* a call has been made and has handed its request to the transport or ended
Called == op # "none" /\ (outcome = Pending \/ Done)

\* C14: every invocation of an operation issues exactly one HTTP request,
\* whether it returns an envelope or raises VerbexError; a failed call is
\* not retried.
C14_OneRequestPerCall == Called => sent = 1 /\ request.kind = "request"

\* a call the transport failed: it ended in VerbexError after one request
C14_Witness ==
    /\ reply.kind = "exception" /\ RaisedVerbexError
    /\ sent = 1

\* the Authorization headers among headers
AuthorizationOf(headers) == {h \in headers : h[1] = "Authorization"}

Unauthenticated == {"health_check", "root_health_check", "login"}

\* the request of the last call carries the Authorization header it should
RightAuthorization ==
    request.kind = "request" =>
        AuthorizationOf(request.headers) =
            IF op \in Unauthenticated
            THEN {}
            ELSE {<<"Authorization", "Bearer " \o client.access_key>>}

\* C15: the requests of health_check, root_health_check and login carry no
\* Authorization header, the request of every other operation carries
\* 'Authorization: Bearer <access_key>' with the key the client was
\* constructed with, and that key never changes.
C15_AuthorizationHeader ==
    /\ []RightAuthorization
    /\ [][client'.access_key = client.access_key]_vars

\* a login request without the header, and a validate_token request with it
C15_Witness ==
    /\ op = "validate_token" /\ request.kind = "request"
    /\ <<"Authorization", "Bearer verbexadmin">> \in request.headers
    /\ <<"Accept", "application/json">> \in request.headers

C15_WitnessLogin ==
    /\ op = "login" /\ request.kind = "request"
    /\ AuthorizationOf(request.headers) = {}

\* the collection argument and the body field of each replacing operation
Replaces ==
    [update_index_labels |-> <<"labels", Key("L", "abels"), List(<<>>)>>,
     update_index_tags |-> <<"tags", Key("T", "ags"), Dict(<<>>)>>,
     update_document_labels |-> <<"labels", Key("L", "abels"), List(<<>>)>>,
     update_document_tags |-> <<"tags", Key("T", "ags"), Dict(<<>>)>>]

\* C16: the four update operations always send a PUT body that holds the
\* Labels (resp. Tags) field; for an empty or absent input the field holds
\* the empty list (resp. the empty mapping).
C16_ReplacementAlwaysSent ==
    op \in DOMAIN Replaces /\ request.kind = "request" =>
        LET given == args[Replaces[op][1]]
            field == Replaces[op][2]
            empty == Replaces[op][3]
        IN /\ request.method = "PUT"
           /\ request.json.t = "dict"
           /\ HasKey(request.json.v, field)
           /\ Lookup(request.json.v, field) =
                  IF given = None \/ given = empty THEN empty ELSE given

\* update_index_tags called without tags sends Tags: {}
C16_Witness ==
    /\ op = "update_index_tags" /\ args.tags = None
    /\ request.kind = "request"
    /\ request.json = Dict(<< <<Key("T", "ags"), Dict(<<>>)>> >>)

\* the collection is given and holds something
NonEmpty(collection) == collection # None /\ Len(collection.v) > 0

\* C17: the create_index body has Name = the given name, or the id when the
\* name is omitted; Description = the given description, or "" when
\* omitted; Labels (resp. Tags) exactly when a non-empty collection is given.
C17_CreateIndexBody ==
    op = "create_index" /\ request.kind = "request" =>
        LET body == request.json.v
        IN /\ Lookup(body, Key("N", "ame")) =
                  IF args.name # None THEN args.name ELSE Str(args.id)
           /\ Lookup(body, Key("D", "escription")) =
                  IF args.description # None THEN args.description ELSE Str("")
           /\ HasKey(body, Key("L", "abels")) <=> NonEmpty(args.labels)
           /\ HasKey(body, Key("T", "ags")) <=> NonEmpty(args.tags)

\* run has ended: its client was constructed and has been closed
RunEnded == pc = "exited" /\ _client = "closed"

\* the names of the scenarios recorded so far
Recorded == [i \in 1..Len(_results) |-> _results[i].name]

\* C18: a scenario failure does not stop the run: whatever scenarios fail,
\* by assertion or by exception, the scenarios recorded are at every moment
\* the first ones of the fixed order, each once, and a run that ends
\* without a fatal error has executed all 38.
C18_AllScenariosInOrder ==
    /\ Len(Scenarios) = 38
    /\ Len(_results) <= Len(Scenarios)
    /\ Recorded = SubSeq(Scenarios, 1, Len(_results))
    /\ RunEnded /\ ~fatal => Recorded = Scenarios

\* a run that ended after two failed scenarios, one of each kind
C18_Witness ==
    /\ RunEnded /\ ~fatal
    /\ Len(_results) = 38
    /\ _failed = 2
    /\ \E i, j \in 1..Len(_results) :
          /\ i < j
          /\ _results[i].message = "success should be True"
          /\ _results[j].message = "VerbexError: Request failed"

\* the counters and the results agree with the number of _run_test calls
CountersAgree ==
    ~fatal => /\ _passed + _failed = Len(_results)
              /\ Len(_results) = position

\* a step that is a _run_test call that returned appends one TestResult and
\* adds one to exactly one counter
OneOutcome ==
    position' = position + 1 /\ ~fatal' =>
        /\ Len(_results') = Len(_results) + 1
        /\ \/ _passed' = _passed + 1 /\ _failed' = _failed
           \/ _passed' = _passed /\ _failed' = _failed + 1

\* C19: every _run_test call appends exactly one TestResult and adds one to
\* exactly one of the counters, so passed + failed is the number of results
\* and the number of scenarios executed so far.
C19_OneOutcomePerScenario == []CountersAgree /\ [][OneOutcome]_vars

\* three scenarios executed: two passed, one failed by exception
C19_Witness ==
    /\ pc = "running" /\ position = 3
    /\ _passed = 2 /\ _failed = 1
    /\ _results[2].message = "VerbexError: Request failed"

\* C20: a run that ended returns 0 exactly when every scenario passed and no
\* fatal error occurred; when a scenario failed or a fatal error aborted the
\* sequence it returns 1.
C20_ExitStatus ==
    RunEnded =>
        /\ exit_status \in {0, 1}
        /\ exit_status = 0 <=>
              /\ ~fatal
              /\ Recorded = Scenarios
              /\ \A i \in 1..Len(_results) : _results[i].passed
              /\ _failed = 0

\* a run of 38 passed scenarios that returned 0
C20_Witness ==
    /\ RunEnded /\ exit_status = 0
    /\ _passed = 38 /\ _failed = 0

\* a run of passed scenarios aborted by a fatal error returned 1
C20_WitnessFatal ==
    /\ RunEnded /\ exit_status = 1 /\ fatal
    /\ \A i \in 1..Len(_results) : _results[i].passed

\* the TestResult recorded last
LastResult == _results[Len(_results)]
\* the last scenario is recorded as its body ended: passed with an empty
\* message, a failed assertion with its text alone, another exception with
\* its class name before its text
RecordedAsEnded ==
    (ended # NoCall /\ _results # <<>>) =>
        /\ ended.kind = "return" => LastResult.passed /\ LastResult.message = ""
        /\ (ended.kind = "raise" /\ ended.type = "AssertionError") =>
               ~LastResult.passed /\ LastResult.message = ended.text
        /\ (ended.kind = "raise" /\ ended.type # "AssertionError") =>
               /\ ~LastResult.passed
               /\ LastResult.message = ended.type \o ": " \o ended.text
               /\ LastResult.message # ended.text
\* a scenario adds one to exactly one counter; the except clause of run, when
\* the scenario's print takes the run there, adds its own one to _failed
CountedAsEnded ==
    position' = position + 1 =>
        LET more == IF fatal' THEN 1 ELSE 0
        IN IF ended'.kind = "return"
           THEN _passed' = _passed + 1 /\ _failed' = _failed + more
           ELSE _passed' = _passed /\ _failed' = _failed + 1 + more

\* C22: a scenario whose body fails an assertion and one whose body raises
\* any other exception are both recorded as failed, _failed rising by one
\* and _passed staying, the first with the assertion's text alone as its
\* message and the second with '<class name>: <message>'; a scenario that
\* passes is recorded with an empty message.
C22_FailuresRecordedWithDiagnostics == []RecordedAsEnded /\ [][CountedAsEnded]_vars
\* a run that recorded a passed scenario, a failed assertion and an exception
C22_Witness ==
    /\ ended # NoCall /\ ended.kind = "raise" /\ ended.type = "AssertionError" /\ ~fatal
    /\ \E i, j \in 1..Len(_results) :
          /\ _results[i].passed /\ _results[i].message = ""
          /\ _results[j].message = "VerbexError: Request failed"
    /\ LastResult.message = "success should be True" /\ _failed = 2

\* the number of a scenario in the run
Number(name) == CHOOSE n \in 1..Len(Scenarios) : Scenarios[n] = name
\* the scenario has been run and recorded as passed
Passed(name) == Len(_results) >= Number(name) /\ _results[Number(name)].passed
\* the call returned an envelope
ReturnedEnvelope(c) == c.reply \in {"ok", "unsuccessful", "flawed"}
\* the call raised VerbexError with the given status
RaisedStatus(c, status) == c.reply = "VerbexError" /\ c.status = status
\* the calls of the given operation made in the named scenario, by their
\* numbers in the order of all calls
CallsOf(name, operation) ==
    LET n == Number(name)
    IN {i \in 1..Len(calls) : calls[i].scenario = n /\ calls[i].op = operation}

\* C21: every client the harness constructs is released: whenever run ends
\* after its client was constructed, with all scenarios passed, some failed
\* or the sequence aborted, that client is closed; the client of "Validate
\* invalid token" is closed when that scenario ends, whether validate_token
\* raised or returned.
C21_ClientsReleased ==
    /\ (pc = "exited" /\ _client # "none") => _client = "closed"
    /\ invalid_client # "open"
    /\ position >= Number("Validate invalid token") => invalid_client = "closed"
\* an aborted run in which validate_token of the invalid client returned
C21_Witness ==
    /\ RunEnded /\ fatal /\ invalid_client = "closed"
    /\ \E i \in CallsOf("Validate invalid token", "validate_token") :
          calls[i].via = "invalid_client" /\ ReturnedEnvelope(calls[i])
    /\ ~_results[Number("Validate invalid token")].passed
\* a completed run in which validate_token of the invalid client raised
C21_WitnessRaised ==
    /\ RunEnded /\ ~fatal /\ invalid_client = "closed"
    /\ \E i \in CallsOf("Validate invalid token", "validate_token") :
          calls[i].via = "invalid_client" /\ RaisedStatus(calls[i], 401)

\* C23: "Verify document deleted" passes only when the harness deleted a
\* document and the get_document that followed for the same id raised
\* VerbexError with status 404; "Verify index deleted" passes only when
\* get_index for the test index raised VerbexError with status 404.
C23_DeletedThenNotFound ==
    /\ Passed("Verify document deleted") =>
          \E i \in CallsOf("Verify document deleted", "delete_document") :
             \E j \in CallsOf("Verify document deleted", "get_document") :
                /\ i < j
                /\ ReturnedEnvelope(calls[i])
                /\ calls[j].document = calls[i].document
                /\ RaisedStatus(calls[j], 404)
    /\ Passed("Verify index deleted") =>
          \E i \in CallsOf("Verify index deleted", "get_index") :
             calls[i].index = TestIndex /\ RaisedStatus(calls[i], 404)

\* C24: "Create duplicate index fails" passes only if create_index raised
\* VerbexError with status 409, and the "Get index" that follows passes only
\* if the server still stores the test index under the name of its first
\* creation, "Test Index".
C24_DuplicateLeavesIndex ==
    /\ Passed("Create duplicate index fails") =>
          \E i \in CallsOf("Create duplicate index fails", "create_index") :
             calls[i].index = TestIndex /\ RaisedStatus(calls[i], 409)
    /\ (position = Number("Get index") /\ Passed("Get index")) =>
          /\ [id |-> TestIndex, name |-> "Test Index"] \in server.indices
          /\ \A i \in server.indices : i.id = TestIndex => i.name = "Test Index"
\* the duplicate was refused with 409 and the index fetched right after
C24_Witness ==
    /\ position = Number("Get index")
    /\ Passed("Create duplicate index fails") /\ Passed("Get index")
    /\ RaisedStatus(calls[Len(calls) - 1], 409)

\* the negative scenarios: the operation each expects to raise, and the status
Negatives ==
    { <<"Login with invalid credentials", "login", 401>>,
      <<"Validate invalid token", "validate_token", 401>>,
      <<"Create duplicate index fails", "create_index", 409>>,
      <<"Get index not found", "get_index", 404>>,
      <<"Get document not found", "get_document", 404>>,
      <<"Delete document not found", "delete_document", 404>>,
      <<"Verify document deleted", "get_document", 404>>,
      <<"Delete index not found", "delete_index", 404>>,
      <<"Verify index deleted", "get_index", 404>> }
\* the scenario passed exactly if its operation raised VerbexError with its status
PassesIffRaised(n) ==
    Len(_results) >= Number(n[1]) =>
        (_results[Number(n[1])].passed <=>
            \E i \in CallsOf(n[1], n[2]) : RaisedStatus(calls[i], n[3]))

\* C25: every negative scenario passes if and only if its client operation
\* raised VerbexError with exactly the expected status (401, 409 or 404); it
\* is recorded as failed when the operation returns, raises VerbexError with
\* another status, or raises another exception.
C25_NegativePassesIffExpectedError == \A n \in Negatives : PassesIffRaised(n)

\* the operations on the documents of an index
DocumentOps == {"list_documents", "add_document", "get_document", "delete_document", "search"}
\* the create_index of "Create index" and the delete_index of "Delete index"
CreatesTestIndex == {i \in CallsOf("Create index", "create_index") : calls[i].index = TestIndex}
DeletesTestIndex == {i \in CallsOf("Delete index", "delete_index") : calls[i].index = TestIndex}

\* C26: the run is sequential and ordered: the calls are made scenario after
\* scenario, none of a scenario not yet reached; the create_index of the
\* test index comes before every other call on that index; no document or
\* search call comes after the delete_index of the test index; the get_index
\* of "Verify index deleted" comes after the delete_index of "Delete index".
C26_SequentialAndOrdered ==
    LET created == CreatesTestIndex
        deleted == DeletesTestIndex
        verified == CallsOf("Verify index deleted", "get_index")
    IN \A j \in 1..Len(calls) :
          /\ calls[j].scenario \in 1..position
          /\ j > 1 => calls[j - 1].scenario <= calls[j].scenario
          /\ (calls[j].index = TestIndex /\ j \notin created) => \E i \in created : i < j
          /\ calls[j].op \in DocumentOps => \A i \in deleted : j < i
          /\ j \in verified => \E i \in deleted : i < j
\* a completed run with all its calls, the last the get_index after the delete
C26_Witness ==
    /\ RunEnded /\ ~fatal /\ calls # <<>>
    /\ Len(calls) \in CallsOf("Verify index deleted", "get_index")
    /\ Len(calls) - 2 \in DeletesTestIndex
    /\ \E i \in CreatesTestIndex, j \in 1..Len(calls) : i < j /\ calls[j].op = "search"

\* C27: at the end of every completed run, whatever scenarios failed,
\* delete_index has been called for every index whose create_index
\* succeeded: the test index and the two temporary indices.
C27_EveryCreatedIndexDeleted ==
    (RunEnded /\ ~fatal) =>
        \A i \in 1..Len(calls) :
           (calls[i].op = "create_index" /\ calls[i].reply \in {"ok", "flawed"}) =>
               \E j \in 1..Len(calls) :
                  calls[j].op = "delete_index" /\ calls[j].index = calls[i].index

\* id is the id of a document whose add_document returned with success
AddedWithSuccess(id) ==
    /\ id # ""
    /\ \E i \in 1..Len(calls) :
          /\ calls[i].op = "add_document"
          /\ \/ calls[i].reply = "ok" /\ calls[i].id = id
             \/ calls[i].reply = "flawed" /\ calls[i].document = id
\* a delete_document has been called for id
DeleteIssued(id) ==
    \E i \in 1..Len(calls) : calls[i].op = "delete_document" /\ calls[i].document = id
\* the ids in a sequence
Range(seq) == {seq[i] : i \in 1..Len(seq)}
\* the list holds only ids of documents added with success and not deleted
TrackedAreAdded ==
    \A id \in Range(_test_documents) : AddedWithSuccess(id) /\ ~DeleteIssued(id)
\* an id had left the list when its delete_document was called
RemovedBeforeDelete ==
    \A i \in 1..Len(calls) :
       calls[i].op = "delete_document" => calls[i].document \notin Range(calls[i].tracked)
\* the list is as long as the server's documents are many when "List
\* documents (after add)" is the next scenario
TracksEveryStored ==
    (pc = "running" /\ position + 1 = Number("List documents (after add)")) =>
        Len(_test_documents) = Cardinality(server.documents)

\* C28: at every scenario boundary the tracked list holds only ids of
\* documents whose add_document returned with success and for which no
\* delete_document has been called; an id leaves the list before its delete
\* request is sent; the list is as long as the server's documents are many
\* when "List documents (after add)" runs.
C28_TrackedDocuments == TrackedAreAdded /\ RemovedBeforeDelete /\ TracksEveryStored

====
